---- MODULE Spec2Model ----
(***************************************************************************)
(* Model of pytfa/lumpgem/lumpgem.py: the LumpGEM class.                   *)
(*                                                                         *)
(* The constructor partitions the reactions of a genome-scale model (GEM)  *)
(* into biomass, core and non-core reactions, builds a thermodynamic model *)
(* from a separately imported cobra model, creates one binary variable per *)
(* non-core reaction, adds one carbon-uptake constraint per non-core       *)
(* reaction and sets the lower bound of the biomass reactions.             *)
(* run_optimisation prepares the thermodynamic model, clears the           *)
(* thermo['computed'] flag of the non-core reactions, converts and solves. *)
(*                                                                         *)
(* Reaction objects are the integers 1..NumRxn; the id of a reaction is    *)
(* its number.  The float coefficient 1.0 is written 1.                    *)
(***************************************************************************)
EXTENDS Integers, FiniteSets, Sequences

\* ---------------------------------------------------------------- bounds
NumRxn == 3
MaxSubsystems == 2
MaxUptake == 2

\* The sets the caller's inputs are drawn from: the default lower bound of the
\* reactions of GEM, a non-negative growth rate, a positive carbon uptake.
InitLowerBounds == {0, 1}
GrowthRates == {0, 1}
CarbonUptakes == 1 .. MaxUptake
\* The values the forward and the reverse flux variable of a reaction take
\* when a constraint is evaluated.
FluxValues == {0, 1, 2}
\* The values the solver assigns to the flux of a biomass reaction.
SolverFluxes == {0, 1}

\* ---------------------------------------------------------- program data
CPLEX == "optlang-cplex"

\* GEM.reactions: the reaction objects of the caller's model.
Reactions == 1 .. NumRxn

\* rxn.id
Id(rxn) == rxn

\* rxn.metabolites: reaction k consumes metabolite k and produces k+1.
Metabolites(rxn) == {rxn, rxn + 1}

NoFunction == [x \in {} |-> 0]
NoSolution == [status |-> "none", flux |-> NoFunction]

VARIABLES
    pc,               \* position in the constructor / in run_optimisation
    lower_bound,      \* rxn.lower_bound of every reaction object of GEM
    thermo_computed,  \* rxn.thermo['computed'] of every reaction object of GEM
    rBBB,             \* self._rBBB
    rcore,            \* self._rcore
    mcore,            \* self._mcore
    rncore,           \* self._rncore
    nsub,             \* number of core subsystems iterated so far
    C_uptake,         \* self._C_uptake
    growth_rate,      \* self._growth_rate
    solver,           \* self._solver
    cobra_lb,         \* lower bounds of the reactions of self._cobra_model
    tfa_name,         \* self._tfa_model.name
    tfa_objective,    \* self._tfa_model.objective
    tfa_constraints,  \* constraints added to self._tfa_model
    tfa_state,        \* the last lifecycle step applied to self._tfa_model
    bin_vars,         \* self._bin_vars
    todo,             \* elements a running for-loop has still to visit
    calls,            \* methods of _tfa_model called by the current run_optimisation
    solution          \* the value returned by the last run_optimisation

vars == <<pc, lower_bound, thermo_computed, rBBB, rcore, mcore, rncore, nsub,
          C_uptake, growth_rate, solver, cobra_lb, tfa_name, tfa_objective,
          tfa_constraints, tfa_state, bin_vars, todo, calls, solution>>

gem_vars == <<lower_bound, thermo_computed>>
part_vars == <<rBBB, rcore, mcore, rncore, nsub>>
param_vars == <<C_uptake, growth_rate, solver>>
tfa_vars == <<cobra_lb, tfa_name, tfa_objective, tfa_constraints, tfa_state>>

\* ------------------------------------------------------------------ Init
\* A GEM as the caller hands it over, before LumpGEM.__init__ runs: its
\* reactions carry the same default lower bound, and any of them may lack
\* thermodynamic data.
Init ==
    /\ pc = "init"
    /\ \E lb \in InitLowerBounds : lower_bound = [rxn \in Reactions |-> lb]
    /\ thermo_computed \in [Reactions -> BOOLEAN]
    /\ rBBB = {} /\ rcore = {} /\ mcore = {} /\ rncore = {}
    /\ nsub = 0
    /\ C_uptake = 0 /\ growth_rate = 0 /\ solver = ""
    /\ cobra_lb = NoFunction
    /\ tfa_name = "" /\ tfa_objective = NoFunction
    /\ tfa_constraints = {}
    /\ tfa_state = "None"
    /\ bin_vars = NoFunction
    /\ todo = {}
    /\ calls = <<>>
    /\ solution = NoSolution

\* --------------------------------------------------------- LumpGEM.__init__
\* Line 39: the reactions of GEM whose id is in biomass_rxns.
BiomassSet(biomass_rxns) == {rxn \in Reactions : Id(rxn) \in biomass_rxns}

\* Lines 36-44.
InitBiomass ==
    /\ pc = "init"
    /\ \E biomass_rxns \in SUBSET {Id(rxn) : rxn \in Reactions} :
          rBBB' = BiomassSet(biomass_rxns)
    /\ rcore' = {}
    /\ mcore' = {}
    /\ pc' = "core"
    /\ UNCHANGED <<gem_vars, rncore, nsub, param_vars, tfa_vars, bin_vars,
                   todo, calls, solution>>

\* Lines 45-51: one iteration of the loop over core_subsystems.
CoreSubsystem ==
    /\ pc = "core"
    /\ nsub < MaxSubsystems
    /\ \E subsystem \in SUBSET Reactions :
          /\ rcore' = rcore \cup subsystem
          /\ mcore' = mcore \cup UNION {Metabolites(rxn) : rxn \in subsystem}
    /\ nsub' = nsub + 1
    /\ UNCHANGED <<pc, gem_vars, rBBB, rncore, param_vars, tfa_vars, bin_vars,
                   todo, calls, solution>>

\* Line 54 with the negation applied to the first test only.
NonCoreSet_NegatesCoreOnly ==
    {rxn \in Reactions : ~(rxn \in rcore) /\ rxn \in rBBB}

\* Line 54.
NonCoreSet == {rxn \in Reactions : ~(rxn \in rcore \/ rxn \in rBBB)}

\* Lines 54-62: end of the loop over core_subsystems, non-core set, parameters.
InitNonCore ==
    /\ pc = "core"
    /\ rncore' = NonCoreSet
    /\ \E carbon_uptake \in CarbonUptakes : C_uptake' = carbon_uptake
    /\ \E gr \in GrowthRates : growth_rate' = gr
    /\ solver' = CPLEX
    /\ pc' = "thermo"
    /\ UNCHANGED <<gem_vars, rBBB, rcore, mcore, nsub, tfa_vars, bin_vars,
                   todo, calls, solution>>

\* ------------------------------------------------ _apply_thermo_constraints
\* Line 65: import_matlab_model("..") builds a second cobra model; its reaction
\* objects are not those of GEM.  It is taken to describe the same network as
\* GEM: the same reaction ids, with the bounds GEM had when it was handed over.
ImportedLowerBounds == [rxn \in Reactions |-> lower_bound[rxn]]

\* Line 112: the objective coefficients.
Objective == [bbb_rxn \in rBBB |-> 1]

\* Lines 65-67 and 96-114.
ApplyThermoConstraints ==
    /\ pc = "thermo"
    /\ cobra_lb' = ImportedLowerBounds
    /\ tfa_name' = "Lumped Model"
    /\ tfa_objective' = Objective
    /\ tfa_state' = "Built"
    /\ pc' = "binvars"
    /\ UNCHANGED <<gem_vars, part_vars, param_vars, tfa_constraints, bin_vars,
                   todo, calls, solution>>

\* ------------------------------------------------ _generate_binary_variables
\* Line 77 with one variable object made once and used for every reaction.
BinaryVariable_Shared(rxn) == [name |-> "y", type |-> "binary", obj |-> 0]

\* Line 77: BinaryVariable(name=rxn.id, type='binary').  Every evaluation makes
\* a new object; obj is the identity of the object made for rxn.
BinaryVariable(rxn) == [name |-> Id(rxn), type |-> "binary", obj |-> rxn]

\* Line 77: the reactions that get a binary variable.
BinaryVariableKeys == rncore

\* Lines 69 and 72-77.
GenerateBinaryVariables ==
    /\ pc = "binvars"
    /\ bin_vars' = [rxn \in BinaryVariableKeys |-> BinaryVariable(rxn)]
    /\ todo' = rncore
    /\ pc' = "carbon"
    /\ UNCHANGED <<gem_vars, part_vars, param_vars, tfa_vars, calls, solution>>

\* ----------------------------------------------------- _generate_constraints
\* Lines 87-89 without the factor C_uptake on the binary variable.
CarbonConstraint_UnitCoef(rxn) ==
    [forward |-> rxn, reverse |-> rxn, indicator |-> bin_vars[rxn],
     coef |-> 1, ub |-> C_uptake]

\* Lines 87-89: rxn.forward_variable + rxn.reverse_variable
\*              + C_uptake * bin_vars[rxn] <= C_uptake.
CarbonConstraint(rxn) ==
    [forward |-> rxn, reverse |-> rxn, indicator |-> bin_vars[rxn],
     coef |-> C_uptake, ub |-> C_uptake]

\* Whether a constraint admits forward flux f, reverse flux b and indicator y.
Admits(cons, f, b, y) == f + b + cons.coef * y <= cons.ub

\* Lines 85-90: one iteration of the loop over the non-core reactions.
CarbonUptakeConstraint ==
    /\ pc = "carbon"
    /\ \E rxn \in todo :
          /\ tfa_constraints' = tfa_constraints \cup {CarbonConstraint(rxn)}
          /\ todo' = todo \ {rxn}
    /\ UNCHANGED <<pc, gem_vars, part_vars, param_vars, cobra_lb, tfa_name,
                   tfa_objective, tfa_state, bin_vars, calls, solution>>

\* Lines 85 and 93: the first loop is over, the second starts.
CarbonLoopEnd ==
    /\ pc = "carbon"
    /\ todo = {}
    /\ todo' = rBBB
    /\ pc' = "growth"
    /\ UNCHANGED <<gem_vars, part_vars, param_vars, tfa_vars, bin_vars, calls,
                   solution>>

\* Lines 93-94: one iteration of the loop over the biomass reactions.  bio_rxn
\* is a reaction object of GEM.
GrowthRateConstraint ==
    /\ pc = "growth"
    /\ \E bio_rxn \in todo :
          /\ lower_bound' = [lower_bound EXCEPT ![bio_rxn] = growth_rate]
          /\ todo' = todo \ {bio_rxn}
    /\ UNCHANGED <<pc, thermo_computed, part_vars, param_vars, tfa_vars,
                   bin_vars, calls, solution>>

\* Line 93: the loop is over and the constructor returns.
GrowthLoopEnd ==
    /\ pc = "growth"
    /\ todo = {}
    /\ pc' = "built"
    /\ UNCHANGED <<gem_vars, part_vars, param_vars, tfa_vars, bin_vars, todo,
                   calls, solution>>

\* ------------------------------------------------------------ run_optimisation
\* Line 120 looping over every reaction of GEM.
GateTargets_All == Reactions

\* Line 120: the reactions whose thermo computation is switched off.
GateTargets == rncore

\* Line 117: self._tfa_model.prepare().  Nothing guards the call: it runs on a
\* model that was just built and on one that was already solved.
Prepare ==
    /\ pc \in {"built", "done"}
    /\ calls' = <<"prepare">>
    /\ tfa_state' = "Prepared"
    /\ solution' = NoSolution
    /\ todo' = GateTargets
    /\ pc' = "gate"
    /\ UNCHANGED <<gem_vars, part_vars, param_vars, cobra_lb, tfa_name,
                   tfa_objective, tfa_constraints, bin_vars>>

\* Lines 120-121: one iteration of the loop over the non-core reactions.
ThermoGate ==
    /\ pc = "gate"
    /\ \E ncrxn \in todo :
          /\ thermo_computed' = [thermo_computed EXCEPT ![ncrxn] = FALSE]
          /\ todo' = todo \ {ncrxn}
    /\ UNCHANGED <<pc, lower_bound, part_vars, param_vars, tfa_vars, bin_vars,
                   calls, solution>>

\* Line 123 reached without waiting for the loop of lines 120-121.
Convert_BeforeGating ==
    /\ pc = "gate"
    /\ calls' = Append(calls, "convert")
    /\ tfa_state' = "Converted"
    /\ pc' = "optimize"
    /\ UNCHANGED <<gem_vars, part_vars, param_vars, cobra_lb, tfa_name,
                   tfa_objective, tfa_constraints, bin_vars, todo, solution>>

\* Line 123: self._tfa_model.convert(), once the loop is over.
Convert ==
    /\ pc = "gate"
    /\ todo = {}
    /\ calls' = Append(calls, "convert")
    /\ tfa_state' = "Converted"
    /\ pc' = "optimize"
    /\ UNCHANGED <<gem_vars, part_vars, param_vars, cobra_lb, tfa_name,
                   tfa_objective, tfa_constraints, bin_vars, todo, solution>>

\* The biomass reactions of the model the solver sees: the reactions of
\* _cobra_model with the id of a reaction of _rBBB.
TfaBiomass == {rxn \in DOMAIN cobra_lb : \E bbb \in rBBB : Id(bbb) = Id(rxn)}

\* What optimize() can return.  The solver is external: it answers with a flux
\* for every reaction that respects the bounds of the reactions of _tfa_model,
\* or reports that there is none.  Only the biomass fluxes are kept.
Solutions ==
    {[status |-> "optimal", flux |-> f] :
        f \in {g \in [TfaBiomass -> SolverFluxes] :
                 \A rxn \in TfaBiomass : g[rxn] >= cobra_lb[rxn]}}
    \cup {[status |-> "infeasible", flux |-> NoFunction]}

\* Lines 125-126: tfa_solution = self._tfa_model.optimize(); return it.
Optimize ==
    /\ pc = "optimize"
    /\ calls' = Append(calls, "optimize")
    /\ tfa_state' = "Solved"
    /\ \E tfa_solution \in Solutions : solution' = tfa_solution
    /\ pc' = "done"
    /\ UNCHANGED <<gem_vars, part_vars, param_vars, cobra_lb, tfa_name,
                   tfa_objective, tfa_constraints, bin_vars, todo>>

Next ==
    \/ InitBiomass
    \/ CoreSubsystem
    \/ InitNonCore
    \/ ApplyThermoConstraints
    \/ GenerateBinaryVariables
    \/ CarbonUptakeConstraint
    \/ CarbonLoopEnd
    \/ GrowthRateConstraint
    \/ GrowthLoopEnd
    \/ Prepare
    \/ ThermoGate
    \/ Convert
    \/ Optimize

Spec == Init /\ [][Next]_vars

\* ------------------------------------------------------------ properties
\* The partition is computed (line 54 has run).
Partitioned == pc \notin {"init", "core"}

\* __init__ has returned.
Constructed == pc \in {"built", "gate", "optimize", "done"}

\* The loop of lines 120-121 of the current run_optimisation is over.
Gated == (pc = "gate" /\ todo = {}) \/ pc \in {"optimize", "done"}

ExpectedCalls == <<"prepare", "convert", "optimize">>

IsPrefix(s, t) == Len(s) <= Len(t) /\ \A i \in 1 .. Len(s) : s[i] = t[i]

C2_ExactlyOnce ==
    Partitioned =>
        /\ rBBB \cap rcore = {}
        /\ rBBB \cap rncore = {}
        /\ rcore \cap rncore = {}

\* C3: after construction every non-core reaction has one binary variable,
\* distinct non-core reactions have distinct variables, no core or biomass
\* reaction has one, and the variable of a non-core reaction occurs in
\* exactly one constraint of the model, the one built for that reaction.
C3_OneIndicatorEach ==
    Constructed =>
        /\ DOMAIN bin_vars = rncore
        /\ DOMAIN bin_vars \cap (rcore \cup rBBB) = {}
        /\ \A r1, r2 \in rncore : r1 # r2 => bin_vars[r1] # bin_vars[r2]
        /\ \A rxn \in rncore :
              LET using == {cons \in tfa_constraints :
                               cons.indicator = bin_vars[rxn]}
              IN  /\ Cardinality(using) = 1
                  /\ \A cons \in using :
                        cons.forward = rxn /\ cons.reverse = rxn

C3_Witness ==
    /\ pc = "built"
    /\ Cardinality(rncore) >= 2
    /\ rcore # {}
    /\ Cardinality(tfa_constraints) >= 2

\* C4: when the constructor returns, the lower bound of every biomass
\* reaction is the growth rate, and the growth-rate loop changes the lower
\* bound of no core and no non-core reaction.
C4_GrowthRateBounds ==
    [][/\ pc' = "built" =>
             \A rxn \in rBBB : lower_bound'[rxn] = growth_rate
       /\ pc = "growth" =>
             \A rxn \in rcore \cup rncore :
                lower_bound'[rxn] = lower_bound[rxn]]_vars

\* C5: for a positive carbon uptake, a carbon-uptake constraint with the
\* indicator at 1 admits only zero forward and reverse flux, and with the
\* indicator at 0 admits exactly the fluxes whose sum is at most the uptake.
C5_IndicatorSwitch ==
    \A cons \in tfa_constraints : \A f, b \in FluxValues :
        /\ Admits(cons, f, b, 1) => (f + b <= 0 /\ f = 0 /\ b = 0)
        /\ Admits(cons, f, b, 0) <=> (f + b <= C_uptake)

C5_Witness ==
    /\ pc = "built"
    /\ C_uptake = 2
    /\ tfa_constraints # {}
    /\ \E cons \in tfa_constraints : \E f, b \in FluxValues :
          f + b > 0 /\ Admits(cons, f, b, 0) /\ ~Admits(cons, f, b, 1)

\* C6: when the gating loop of run_optimisation is over, the thermo flag of
\* every non-core reaction is cleared, and no step changes the flag of a
\* core reaction.
C6_ThermoGating ==
    [][/\ Gated' => \A rxn \in rncore : ~thermo_computed'[rxn]
       /\ \A rxn \in rcore : thermo_computed'[rxn] = thermo_computed[rxn]]_vars

C6_Witness ==
    /\ pc = "optimize"
    /\ rncore # {}
    /\ \E rxn \in rcore : thermo_computed[rxn]
    /\ \E rxn \in rcore : ~thermo_computed[rxn]

\* C7: within one run_optimisation, prepare, convert and optimize are called
\* in this order and once each: a thermo flag is cleared only after prepare
\* and before convert, convert is called only when every non-core flag is
\* cleared, and the call returns after exactly these three calls.
C7_RunOrder ==
    [][/\ IsPrefix(calls', ExpectedCalls)
       /\ thermo_computed' # thermo_computed =>
             calls = <<"prepare">> /\ calls' = calls
       /\ (calls' # calls /\ calls'[Len(calls')] = "convert") =>
             \A rxn \in rncore : ~thermo_computed[rxn]
       /\ pc' = "done" => calls' = ExpectedCalls]_vars

C7_Witness ==
    /\ pc = "done"
    /\ calls = ExpectedCalls
    /\ Cardinality(rncore) >= 2

\* C8: a lifecycle method of the model is executed only in the state that
\* precedes it: prepare on a model that is Built, convert on one that is
\* Prepared, optimize on one that is Converted.
C8_NoReentry ==
    [][calls' # calls =>
          LET m == calls'[Len(calls')]
          IN  /\ m = "prepare" => tfa_state = "Built"
              /\ m = "convert" => tfa_state = "Prepared"
              /\ m = "optimize" => tfa_state = "Converted"]_vars

\* C9: the objective of the model has the biomass reactions as its keys,
\* each with coefficient 1, and no core or non-core reaction among them.
C9_Objective ==
    tfa_state # "None" =>
        /\ DOMAIN tfa_objective = rBBB
        /\ \A rxn \in DOMAIN tfa_objective : tfa_objective[rxn] = 1
        /\ DOMAIN tfa_objective \cap (rcore \cup rncore) = {}

\* C10: an optimal solution returned by run_optimisation gives every biomass
\* reaction of the solved model a flux of at least the growth rate.
C10_GrowthEnforced ==
    (pc = "done" /\ solution.status = "optimal") =>
        \A rxn \in TfaBiomass : solution.flux[rxn] >= growth_rate

====
